---- MODULE Spec2Model ----
(***************************************************************************)
(* Model of cursor_forum_scraper.py: module startup, ForumCrawler          *)
(* (extract_post_id, parse_post_html, get_post_links, scrape_post,         *)
(* crawl_forum) and main().                                                *)
(*                                                                         *)
(* Strings are sequences of lexemes (a URL is <<host, "/", "t", "/", ...>>, *)
(* a text is a sequence of words and blanks), so that "in", startswith, endswith *)
(* and strip are computed on them.  An optional value (None or a value) is *)
(* a sequence of length 0 or 1.  Time is in whole seconds.                 *)
(***************************************************************************)
EXTENDS Integers, Sequences, FiniteSets, TLC

VARIABLES
    pc,             \* position of the single thread of control
    apiKey,         \* os.getenv("FIRECRAWL_API_KEY") after load_dotenv()
    argvCap,        \* a cap on the number of posts asked for on the command line
    appConstructed, \* FirecrawlApp(...) has been constructed
    exitCode,       \* process exit status, <<>> while running
    startupErrors,  \* number of logger.error calls made by module startup
    listing,        \* get_post_links: the local `result` of app.crawl_url
    listCalls,      \* number of app.crawl_url calls made
    links,          \* crawl_forum: posts_urls
    idx,            \* crawl_forum: number of loop iterations completed
    posts,          \* crawl_forum: posts_data_list
    trail,          \* per processed link: what the fetcher did and what the code did
    clock,          \* wall clock, seconds
    serStart,       \* clock when final_output_json was assembled, <<>> before
    fileWrites,     \* number of times the output path was opened for writing
    file,           \* content of the output file, <<>> when it does not exist
    returned,       \* value returned by crawl_forum, <<>> if none
    raised,         \* exception that left crawl_forum, <<>> if none
    faults,         \* which of the listing fetch and the file write have failed
    html,           \* parse_post_html: its html_content argument (parsed DOM)
    parsed          \* parse_post_html: its return value, <<>> before the call

vars == <<pc, apiKey, argvCap, appConstructed, exitCode, startupErrors, listing,
          listCalls, links, idx, posts, trail, clock, serStart, fileWrites,
          file, returned, raised, faults, html, parsed>>

\* ------------------------------------------------------------------ bounds
MaxPages == 2          \* pages in one crawl_url response
MaxLinksPerPage == 1   \* links on one page of the response
MaxFails == 3          \* consecutive transient failures the fetcher may produce
MaxCap == 1            \* largest cap asked for on the command line
MaxTopicPosts == 1     \* .topic-post elements in one parsed page
MaxTags == 1           \* .discourse-tag elements in one parsed page

\* ------------------------------------------------------- sequence helpers
Range(s) == {s[i] : i \in 1..Len(s)}

SeqsUpTo(S, n) == UNION {[1..k -> S] : k \in 0..n}

StartsWith(s, pre) ==
    /\ Len(pre) <= Len(s)
    /\ SubSeq(s, 1, Len(pre)) = pre

EndsWith(s, suf) ==
    /\ Len(suf) <= Len(s)
    /\ SubSeq(s, Len(s) - Len(suf) + 1, Len(s)) = suf

Contains(s, pat) ==
    \E i \in 1..(Len(s) + 1) :
        /\ i + Len(pat) - 1 <= Len(s)
        /\ SubSeq(s, i, i + Len(pat) - 1) = pat

Perms(S) ==
    {p \in [1..Cardinality(S) -> S] : \A i, j \in 1..Cardinality(S) : p[i] = p[j] => i = j}

\* ------------------------------------------------------------- ForumCrawler
base_url == <<"https://forum.cursor.com">>

latest_posts_url == base_url \o <<"/", "latest">>

rate_limit_delay == 1

ThreadMarker == <<"/", "t", "/">>

LatestSuffix == <<"/", "latest">>

Digits == {"1", "2", "3"}

\* re.search(r'/t/[^/]+/(\d+)', url): the positions i of "/t/" followed by a
\* run of non-slash lexemes up to j, a slash and a digit lexeme
IdMatches(url) ==
    {<<i, j>> \in (1..Len(url)) \X (1..Len(url)) :
        /\ i + 2 <= Len(url)
        /\ SubSeq(url, i, i + 2) = ThreadMarker
        /\ j > i + 3
        /\ \A k \in (i + 3)..(j - 1) : url[k] # "/"
        /\ url[j] = "/"
        /\ j + 1 <= Len(url)
        /\ url[j + 1] \in Digits}

extract_post_id(url) ==
    IF IdMatches(url) = {} THEN <<>>
    ELSE LET m == CHOOSE m \in IdMatches(url) :
                    \A n \in IdMatches(url) : m[1] <= n[1]
         IN  <<url[m[2] + 1]>>

\* the candidate links a listing page may carry
ThreadA == base_url \o <<"/", "t", "/", "intro", "/", "1">>
ThreadB == base_url \o <<"/", "t", "/", "rules", "/", "2">>
ThreadLatest == base_url \o <<"/", "t", "/", "news", "/", "latest">>
ForeignThread == <<"https://example.org">> \o <<"/", "t", "/", "intro", "/", "3">>
AboutPage == base_url \o <<"/", "about">>

CandidateLinks ==
    {ThreadA, ThreadB, ThreadLatest, latest_posts_url, ForeignThread, AboutPage}

\* a crawl_url response: result["data"], each page reduced to page["links"]
Listings == SeqsUpTo(SeqsUpTo(CandidateLinks, MaxLinksPerPage), MaxPages)

AllListedLinks(resp) == UNION {Range(resp[p]) : p \in 1..Len(resp)}

KeepLinkAnyHost(link) ==
    /\ Contains(link, ThreadMarker)
    /\ ~EndsWith(link, LatestSuffix)

KeepLink(link) ==
    /\ Contains(link, ThreadMarker)
    /\ ~EndsWith(link, LatestSuffix)
    /\ StartsWith(link, base_url)

post_links_set(resp) == {link \in AllListedLinks(resp) : KeepLink(link)}

\* list(post_links_set): the set in an iteration order the language leaves open
get_post_links(resp) == Perms(post_links_set(resp))

\* -------------------------------------------------------- parse_post_html
Unknown == <<"Unknown">>

Whitespace == {" "}

RECURSIVE LStrip(_)
LStrip(s) == IF s # <<>> /\ Head(s) \in Whitespace THEN LStrip(Tail(s)) ELSE s

RECURSIVE RStrip(_)
RStrip(s) ==
    IF s # <<>> /\ s[Len(s)] \in Whitespace THEN RStrip(SubSeq(s, 1, Len(s) - 1)) ELSE s

\* str.strip()
Strip(s) == RStrip(LStrip(s))

\* dateutil.parser.parse(s).isoformat(): <<iso>>, or <<>> when parse raises
DateA == <<"2024-01-02">>
DateB == <<"Jan", " ", "3">>
Garbage == <<"soon">>

ParseIso(s) ==
    IF s = DateA THEN <<DateA \o <<"T00:00:00">>>>
    ELSE IF s = DateB THEN <<<<"2026-01-03", "T00:00:00">>>>
    ELSE <<>>

\* the value a date expression has when its exception is not caught
Raised == <<"<exception>">>

TopicDateUncaught(date_elem) ==
    IF date_elem = <<>> THEN Unknown
    ELSE LET date_str == date_elem[1].title
         IN  IF date_str = <<>> \/ date_str[1] = <<>> THEN Unknown
             ELSE IF ParseIso(date_str[1]) = <<>> THEN Raised
             ELSE ParseIso(date_str[1])[1]

\* lines 82-89: the topic's date from the first .post-date element
TopicDate(date_elem) ==
    IF date_elem = <<>> THEN Unknown
    ELSE LET date_str == date_elem[1].title
         IN  IF date_str = <<>> \/ date_str[1] = <<>> THEN Unknown
             ELSE IF ParseIso(date_str[1]) = <<>> THEN Unknown
             ELSE ParseIso(date_str[1])[1]

\* lines 106-113: a reply's date, from the title attribute or else the text
ReplyDate(reply_date_elem) ==
    IF reply_date_elem = <<>> THEN Unknown
    ELSE LET t == reply_date_elem[1].title
             date_str == IF t # <<>> /\ t[1] # <<>> THEN t[1]
                         ELSE Strip(reply_date_elem[1].text)
         IN  IF date_str = <<>> THEN Unknown
             ELSE IF ParseIso(date_str) = <<>> THEN Unknown
             ELSE ParseIso(date_str)[1]

\* element.text.strip() if element else default
TextOr(elem, default) == IF elem = <<>> THEN default ELSE Strip(elem[1])

\* soup.select_one over the .topic-post elements in document order: the first
\* post that has the sub-element, as an optional value
FirstOf(topic_posts, field) ==
    LET has == {i \in 1..Len(topic_posts) : topic_posts[i][field] # <<>>}
    IN  IF has = {} THEN <<>>
        ELSE topic_posts[CHOOSE i \in has : \A j \in has : i <= j][field]

\* soup.select('.topic-post:not(.topic-owner)'), document order
RECURSIVE RepliesOf(_)
RepliesOf(topic_posts) ==
    IF topic_posts = <<>> THEN <<>>
    ELSE (IF Head(topic_posts).owner THEN <<>> ELSE <<Head(topic_posts)>>)
         \o RepliesOf(Tail(topic_posts))

ReplyRecord(reply) ==
    [author |-> TextOr(reply.username, Unknown),
     date |-> ReplyDate(reply.date),
     content |-> TextOr(reply.cooked, <<>>)]

parse_post_html(html_content, post_url) ==
    LET replies_elems == RepliesOf(html_content.topic_posts)
        rec == [id |-> extract_post_id(post_url),
                url |-> post_url,
                title |-> TextOr(html_content.title, Unknown),
                author |-> TextOr(FirstOf(html_content.topic_posts, "username"), Unknown),
                date |-> TopicDate(FirstOf(html_content.topic_posts, "date")),
                content |-> TextOr(FirstOf(html_content.topic_posts, "cooked"), <<>>),
                tags |-> [i \in 1..Len(html_content.tags) |-> Strip(html_content.tags[i])],
                replies |-> [i \in 1..Len(replies_elems) |-> ReplyRecord(replies_elems[i])]]
    IN  [raises |-> \/ rec.date = Raised
                    \/ \E i \in 1..Len(rec.replies) : rec.replies[i].date = Raised,
         value |-> rec]

\* the parsed pages parse_post_html is applied to
OptTexts == {<<>>, <<<<" ", "a", " ">>>>}

\* .post-date elements: with a title attribute (valid or not), without one,
\* and with an empty one
TitledDates ==
    {<<[title |-> <<DateA>>, text |-> <<"b">>]>>,
     <<[title |-> <<Garbage>>, text |-> DateB]>>}

UntitledDates ==
    {<<[title |-> <<>>, text |-> <<" ">> \o DateB \o <<" ">>]>>,
     <<[title |-> <<>>, text |-> Garbage]>>,
     <<[title |-> <<<<>>>>, text |-> <<" ">>]>>}

DateElems == {<<>>} \cup TitledDates \cup UntitledDates

\* .topic-post elements; the text of a topic-owner post's date is never read,
\* so one untitled date stands for them all there
TopicPosts ==
    {p \in [owner : BOOLEAN, username : OptTexts, date : DateElems, cooked : OptTexts] :
        p.owner /\ p.date \in UntitledDates => p.date[1].text = Garbage}

Pages ==
    [title : OptTexts,
     topic_posts : SeqsUpTo(TopicPosts, MaxTopicPosts),
     tags : SeqsUpTo({<<"t", " ">>}, MaxTags)]

PostUrls == {ThreadA}

\* ------------------------------------------------------------ scrape_post
\* pages the fetcher returns during a crawl
FullPage ==
    [title |-> <<<<" ", "a", " ">>>>,
     topic_posts |->
        <<[owner |-> TRUE, username |-> <<<<" ", "a", " ">>>>,
           date |-> <<[title |-> <<DateA>>, text |-> <<"b">>]>>,
           cooked |-> <<<<" ", "a", " ">>>>],
          [owner |-> FALSE, username |-> <<>>,
           date |-> <<[title |-> <<>>, text |-> DateB]>>,
           cooked |-> <<<<" ", "a", " ">>>>]>>,
     tags |-> <<<<"t", " ">>>>]

BarePage == [title |-> <<>>, topic_posts |-> <<>>, tags |-> <<>>]

FetchSeconds == {0, 2}

\* how app.scrape_url behaves for one link: it raises `error` on each of the
\* first `fails` calls and returns a response with `html` on the next one;
\* each call takes `secs` seconds
Scenarios ==
    [fails : {0}, error : {"none"}, html : {<<>>, <<FullPage>>, <<BarePage>>},
     secs : FetchSeconds]
    \cup
    [fails : 1..MaxFails, error : {"RequestException", "Exception"},
     html : {<<FullPage>>}, secs : FetchSeconds]

\* app.scrape_url, call number n for a link
scrape_url(sc, n) ==
    IF n <= sc.fails
    THEN [exc |-> <<sc.error>>, result |-> <<>>]
    ELSE [exc |-> <<>>,
          result |-> <<[html |-> sc.html, markdown |-> <<"#">>, metadata |-> <<"m">>]>>]

FetchAttemptsRetry(sc) == IF sc.fails + 1 < 3 THEN sc.fails + 1 ELSE 3

\* line 177: the number of app.scrape_url calls scrape_post makes for a link
FetchAttempts(sc) == 1

CatchesNothing(error) == FALSE

\* line 194: the exceptions scrape_post catches
Catches(error) == error = "RequestException"

\* scrape_post: `ret` is the returned dict (<<>> for None), `exc` the exception
\* that leaves it, `events` the fetch calls and sleeps it makes
scrape_post(url, sc) ==
    LET n == FetchAttempts(sc)
        out == scrape_url(sc, n)
        events == [i \in 1..(2 * n - 1) |-> IF i % 2 = 1 THEN "fetch" ELSE "sleep"]
    IN  IF out.exc # <<>>
        THEN IF Catches(out.exc[1])
             THEN [ret |-> <<>>, exc |-> <<>>, events |-> events]
             ELSE [ret |-> <<>>, exc |-> out.exc, events |-> events]
        ELSE LET html_content == out.result[1].html
             IN  IF html_content = <<>>
                 THEN [ret |-> <<>>, exc |-> <<>>, events |-> events]
                 ELSE LET p == parse_post_html(html_content[1], url)
                      IN  IF p.raises
                          THEN [ret |-> <<>>, exc |-> <<"Exception">>, events |-> events]
                          ELSE [ret |-> <<[id |-> p.value.id,
                                           url |-> p.value.url,
                                           title |-> p.value.title,
                                           author |-> p.value.author,
                                           date |-> p.value.date,
                                           content |-> p.value.content,
                                           tags |-> p.value.tags,
                                           replies |-> p.value.replies,
                                           markdown_content |-> out.result[1].markdown,
                                           metadata |-> out.result[1].metadata]>>,
                                exc |-> <<>>, events |-> events]

\* ------------------------------------------------------------ module startup
KeyMissingNever(key) == FALSE

\* line 30: not FIRECRAWL_API_KEY
KeyMissing(key) == key = <<>> \/ key[1] = <<>>

ApiKeys == {<<>>, <<<<>>>>, <<<<"k">>>>}

ArgvCaps == {<<>>} \cup {<<n>> : n \in 0..MaxCap}

Init ==
    /\ pc = "startup"
    /\ apiKey \in ApiKeys
    /\ argvCap \in ArgvCaps
    /\ appConstructed = FALSE
    /\ exitCode = <<>>
    /\ startupErrors = 0
    /\ listing = <<>>
    /\ listCalls = 0
    /\ links = <<>>
    /\ idx = 0
    /\ posts = <<>>
    /\ trail = <<>>
    /\ clock = 0
    /\ serStart = <<>>
    /\ fileWrites = 0
    /\ file = <<>>
    /\ returned = <<>>
    /\ raised = <<>>
    /\ faults = {}
    /\ html = <<>>
    /\ parsed = <<>>

\* lines 27-35: load the key, exit(1) without it, else construct the client
Startup ==
    /\ pc = "startup"
    /\ IF KeyMissing(apiKey)
       THEN /\ startupErrors' = startupErrors + 1
            /\ exitCode' = <<1>>
            /\ pc' = "exited"
            /\ UNCHANGED appConstructed
       ELSE /\ appConstructed' = TRUE
            /\ pc' = "main"
            /\ UNCHANGED <<startupErrors, exitCode>>
    /\ UNCHANGED <<apiKey, argvCap, listing, listCalls, links, idx, posts, trail, clock,
                   serStart, fileWrites, file, returned, raised, faults, html, parsed>>

\* lines 235-238: main() builds the crawler and calls crawl_forum; sys.argv is
\* not read
Main ==
    /\ pc = "main"
    /\ pc' = "collect"
    /\ UNCHANGED <<apiKey, argvCap, appConstructed, exitCode, startupErrors, listing,
                   listCalls, links, idx, posts, trail, clock, serStart, fileWrites,
                   file, returned, raised, faults, html, parsed>>

\* line 207 with lines 150-161: app.crawl_url returns a response, which is
\* filtered and deduplicated
GetPostLinks ==
    /\ pc = "collect"
    /\ \E resp \in Listings : \E unique_post_links \in get_post_links(resp) :
        /\ listing' = <<resp>>
        /\ links' = unique_post_links
    /\ listCalls' = listCalls + 1
    /\ pc' = "collected"
    /\ UNCHANGED <<apiKey, argvCap, appConstructed, exitCode, startupErrors, idx, posts,
                   trail, clock, serStart, fileWrites, file, returned, raised, faults,
                   html, parsed>>

\* line 150: app.crawl_url raises; nothing in get_post_links or crawl_forum
\* catches it
GetPostLinksRaises ==
    /\ pc = "collect"
    /\ \E error \in {"RequestException", "Exception"} :
        raised' = <<[by |-> "list", error |-> error]>>
    /\ faults' = faults \cup {"list"}
    /\ listCalls' = listCalls + 1
    /\ pc' = "raised"
    /\ UNCHANGED <<apiKey, argvCap, appConstructed, exitCode, startupErrors, listing,
                   links, idx, posts, trail, clock, serStart, fileWrites, file,
                   returned, html, parsed>>

\* line 208: get_post_links has returned, its locals are gone
BeginLoop ==
    /\ pc = "collected"
    /\ listing' = <<>>
    /\ posts' = <<>>
    /\ pc' = "loop"
    /\ UNCHANGED <<apiKey, argvCap, appConstructed, exitCode, startupErrors, listCalls,
                   links, idx, trail, clock, serStart, fileWrites, file, returned,
                   raised, faults, html, parsed>>

LoopFinishedAnytime(i, posts_urls) == TRUE

LoopFinishedAtOne(i, posts_urls) == i = Len(posts_urls) \/ i >= 1

\* line 210: the for loop has run out of links
LoopFinished(i, posts_urls) == i = Len(posts_urls)

\* line 215 under the test of line 212: seconds slept after a link
PacingSleep(scraped_data) == IF scraped_data # <<>> THEN rate_limit_delay ELSE 0

\* lines 210-215: one iteration of the loop
ScrapeLink ==
    /\ pc = "loop"
    /\ idx < Len(links)
    /\ \E sc \in Scenarios :
        LET post_url == links[idx + 1]
            r == scrape_post(post_url, sc)
            fetches == Cardinality({i \in 1..Len(r.events) : r.events[i] = "fetch"})
            entry == [url |-> post_url, sc |-> sc, start |-> clock,
                      events |-> r.events \o (IF r.exc = <<>> /\ PacingSleep(r.ret) > 0
                                              THEN <<"sleep">> ELSE <<>>),
                      outcome |-> IF r.exc # <<>> THEN "raised"
                                  ELSE IF r.ret # <<>> THEN "appended" ELSE "nothing"]
        IN  /\ trail' = Append(trail, entry)
            /\ IF r.exc # <<>>
               THEN /\ raised' = <<[by |-> "page", error |-> r.exc[1]]>>
                    /\ pc' = "raised"
                    /\ clock' = clock + fetches * sc.secs
                    /\ UNCHANGED <<posts, idx>>
               ELSE /\ posts' = IF r.ret # <<>> THEN Append(posts, r.ret[1]) ELSE posts
                    /\ clock' = clock + fetches * sc.secs + PacingSleep(r.ret)
                    /\ idx' = idx + 1
                    /\ UNCHANGED <<raised, pc>>
    /\ UNCHANGED <<apiKey, argvCap, appConstructed, exitCode, startupErrors, listing,
                   listCalls, links, serStart, fileWrites, file, returned, faults,
                   html, parsed>>

posts_count_attempted(posts_data_list, posts_urls) == Len(posts_urls)

\* line 221
posts_count(posts_data_list, posts_urls) == Len(posts_data_list)

\* lines 217-223
final_output_json(posts_data_list, posts_urls, now) ==
    [forum_name |-> "Cursor Forum",
     source_url |-> latest_posts_url,
     crawl_date |-> now,
     posts_count |-> posts_count(posts_data_list, posts_urls),
     posts |-> posts_data_list]

\* lines 217-233: assemble the result, write it, return it or re-raise IOError
Serialize ==
    /\ pc = "loop"
    /\ LoopFinished(idx, links)
    /\ serStart' = <<clock>>
    /\ fileWrites' = fileWrites + 1
    /\ LET out == final_output_json(posts, links, clock)
       IN  \/ /\ file' = <<[complete |-> TRUE, data |-> <<out>>]>>
              /\ returned' = <<out>>
              /\ pc' = "returned"
              /\ UNCHANGED <<raised, faults>>
           \/ /\ \E f \in {file, <<[complete |-> FALSE, data |-> <<>>]>>} : file' = f
              /\ raised' = <<[by |-> "write", error |-> "IOError"]>>
              /\ faults' = faults \cup {"write"}
              /\ pc' = "raised"
              /\ UNCHANGED returned
    /\ UNCHANGED <<apiKey, argvCap, appConstructed, exitCode, startupErrors, listing,
                   listCalls, links, idx, posts, trail, clock, html, parsed>>

\* lines 239-241: main() logs the exception and re-raises it
MainExcept ==
    /\ pc = "raised"
    /\ exitCode' = <<1>>
    /\ pc' = "crashed"
    /\ UNCHANGED <<apiKey, argvCap, appConstructed, startupErrors, listing, listCalls,
                   links, idx, posts, trail, clock, serStart, fileWrites, file,
                   returned, raised, faults, html, parsed>>

\* line 244: main() returns
MainReturns ==
    /\ pc = "returned"
    /\ exitCode' = <<0>>
    /\ pc' = "finished"
    /\ UNCHANGED <<apiKey, argvCap, appConstructed, startupErrors, listing, listCalls,
                   links, idx, posts, trail, clock, serStart, fileWrites, file,
                   returned, raised, faults, html, parsed>>

Next ==
    \/ Startup
    \/ Main
    \/ GetPostLinks
    \/ GetPostLinksRaises
    \/ BeginLoop
    \/ ScrapeLink
    \/ Serialize
    \/ MainExcept
    \/ MainReturns

Spec == Init /\ [][Next]_vars

\* ------------------------------------------- parse_post_html on its own
InitParse ==
    /\ pc = "parse"
    /\ html \in Pages \X PostUrls
    /\ parsed = <<>>
    /\ apiKey = <<<<"k">>>>
    /\ argvCap = <<>>
    /\ appConstructed = TRUE
    /\ exitCode = <<>>
    /\ startupErrors = 0
    /\ listing = <<>>
    /\ listCalls = 0
    /\ links = <<>>
    /\ idx = 0
    /\ posts = <<>>
    /\ trail = <<>>
    /\ clock = 0
    /\ serStart = <<>>
    /\ fileWrites = 0
    /\ file = <<>>
    /\ returned = <<>>
    /\ raised = <<>>
    /\ faults = {}

\* line 185: parse_post_html(html_content, url)
ParsePost ==
    /\ pc = "parse"
    /\ parsed' = <<parse_post_html(html[1], html[2])>>
    /\ pc' = "parsed"
    /\ UNCHANGED <<apiKey, argvCap, appConstructed, exitCode, startupErrors, listing,
                   listCalls, links, idx, posts, trail, clock, serStart, fileWrites,
                   file, returned, raised, faults, html>>

NextParse == ParsePost

SpecParse == InitParse /\ [][NextParse]_vars

\* ===================================================================== claims
\* what the formulas below read off the state
RECURSIVE SelectSeqBy(_, _)
\* the elements of sequence s whose flag in sequence keep is TRUE, in order
SelectSeqBy(s, keep) ==
    IF s = <<>> THEN <<>>
    ELSE (IF Head(keep) THEN <<Head(s)>> ELSE <<>>) \o SelectSeqBy(Tail(s), Tail(keep))

IsSubsequence(sub, s) ==
    \E keep \in [1..Len(s) -> BOOLEAN] : SelectSeqBy(s, keep) = sub

Fetches(e) == Cardinality({i \in 1..Len(e.events) : e.events[i] = "fetch"})

\* a backoff sleep is a sleep made between two fetch attempts of one link
BackoffSleeps(e) ==
    Cardinality({i \in 1..Len(e.events) :
        /\ e.events[i] = "sleep"
        /\ \E j \in (i + 1)..Len(e.events) : e.events[j] = "fetch"})

PostedUrls == [i \in 1..Len(posts) |-> posts[i].url]

RecordsFor(url) == Cardinality({i \in 1..Len(posts) : posts[i].url = url})

RunCompleted == pc \in {"returned", "finished"}

RunEnded == pc \in {"returned", "finished", "raised", "crashed"}

FetchWouldSucceed(e) == e.sc.fails = 0 /\ e.sc.html # <<>>

TransientFailure(e) == e.sc.fails >= 1 /\ e.sc.error = "RequestException"

C2_PacedAfterEveryLink ==
    /\ \A i \in 1..(Len(trail) - 1) :
          trail[i + 1].start - trail[i].start >= rate_limit_delay
    /\ serStart # <<>> /\ trail # <<>> =>
          serStart[1] - trail[Len(trail)].start >= rate_limit_delay

C4_EveryLinkTerminal ==
    RunEnded /\ "list" \notin faults =>
        /\ Len(trail) = Len(links)
        /\ \A i \in 1..Len(trail) :
              /\ trail[i].url = links[i]
              /\ \/ trail[i].outcome = "appended" /\ RecordsFor(links[i]) = 1
                 \/ trail[i].outcome = "nothing" /\ RecordsFor(links[i]) = 0
        /\ IsSubsequence(PostedUrls, links)
        /\ serStart # <<>>

\* C5: in the CrawlResult that is written and returned, posts_count is the
\* length of posts and is the number of links whose fetch returned HTML that
\* was parsed, not the number of links attempted.
C5_PostsCount ==
    returned # <<>> =>
        LET out == returned[1]
        IN  /\ out.posts_count = Len(out.posts)
            /\ out.posts_count =
                  Cardinality({i \in 1..Len(trail) : FetchWouldSucceed(trail[i])})
            /\ file = <<[complete |-> TRUE, data |-> <<out>>]>>

C5_Witness ==
    /\ returned # <<>>
    /\ Len(trail) = 2
    /\ returned[1].posts_count = 1
    /\ ~FetchWouldSucceed(trail[1])

C7_ExactlyTheThreadLinks ==
    pc = "collected" =>
        /\ Range(links) =
              {l \in AllListedLinks(listing[1]) :
                  /\ Contains(l, ThreadMarker)
                  /\ l # latest_posts_url
                  /\ StartsWith(l, base_url)}
        /\ \A i, j \in 1..Len(links) : links[i] = links[j] => i = j

\* C7 amended: get_post_links returns, without repetition, exactly the listed
\* links, over all pages, that contain "/t/", do not end with "/latest" and
\* begin with the base URL.
C7_FilteredLinks ==
    pc = "collected" =>
        /\ Range(links) =
              {l \in AllListedLinks(listing[1]) :
                  /\ Contains(l, ThreadMarker)
                  /\ ~EndsWith(l, LatestSuffix)
                  /\ StartsWith(l, base_url)}
        /\ \A i, j \in 1..Len(links) : links[i] = links[j] => i = j

C7_Witness ==
    /\ pc = "collected"
    /\ listing = <<(<<(<<ThreadLatest>>), (<<ThreadA>>)>>)>>
    /\ links = <<ThreadA>>

\* C9: the output path is opened for writing at most once, only when every
\* collected link has been fetched and is succeeded or skipped; a run that
\* returns has written the file exactly once, and a run that stopped before
\* the end of the link loop has left no output file.
C9_WrittenOnceAtTheEnd ==
    /\ fileWrites <= 1
    /\ fileWrites = 1 =>
          /\ Len(trail) = Len(links)
          /\ \A i \in 1..Len(trail) : trail[i].outcome \in {"appended", "nothing"}
    /\ file # <<>> => fileWrites = 1
    /\ RunCompleted => fileWrites = 1 /\ file # <<>> /\ file[1].complete
    /\ Len(trail) < Len(links) \/ pc \in {"startup", "exited", "main", "collect", "collected"} =>
          fileWrites = 0 /\ file = <<>>

C9_Witness ==
    /\ pc = "returned"
    /\ fileWrites = 1
    /\ Len(trail) = 2
    /\ trail[1].outcome = "nothing"
    /\ trail[2].outcome = "appended"

\* C10: with the API key absent from the environment, startup logs the error
\* and exits with status 1; the fetch client is never constructed, no listing
\* or page fetch is made and no output file is written.
C10_NoKeyNoWork ==
    apiKey = <<>> =>
        /\ ~appConstructed
        /\ listCalls = 0
        /\ trail = <<>>
        /\ fileWrites = 0 /\ file = <<>>
        /\ pc \in {"startup", "exited"}
        /\ pc = "exited" => exitCode = <<1>> /\ startupErrors = 1

C10_Witness ==
    /\ apiKey = <<>>
    /\ pc = "exited"
    /\ exitCode = <<1>>

\* the page parse_post_html was given, with one element taken out
WithoutPostField(page, i, field) == [page EXCEPT !.topic_posts[i][field] = <<>>]

NoDateString(elem) == elem[1].title = <<>> \/ elem[1].title[1] = <<>>

\* the documented value of a date: the ISO form of a parseable string, else
\* "Unknown"
IsoOrUnknown(date_str) ==
    IF date_str # <<>> /\ ParseIso(date_str) # <<>> THEN ParseIso(date_str)[1] ELSE Unknown

SameButReplies(r, q, fields) ==
    /\ \A f \in fields : r[f] = q[f]
    /\ Len(r.replies) = Len(q.replies)

\* C8: parse_post_html never raises; a field whose element is missing or
\* malformed has its documented default (title and author "Unknown"; date
\* "Unknown" without element, without title attribute or with an unparseable
\* one; content empty; tags and replies empty; a reply's date read from the
\* element's text when it has no title attribute, "Unknown" when that fails
\* too); and taking an element out of the page changes no field other than
\* those read from that element.
C8_FieldsDegradeIndependently ==
    pc = "parsed" =>
        LET page == html[1]
            url == html[2]
            tp == page.topic_posts
            r == parsed[1].value
            reply_elems == RepliesOf(tp)
            d == FirstOf(tp, "date")
        IN  /\ ~parsed[1].raises
            /\ page.title = <<>> => r.title = Unknown
            /\ (\A i \in 1..Len(tp) : tp[i].username = <<>>) => r.author = Unknown
            /\ (\A i \in 1..Len(tp) : tp[i].cooked = <<>>) => r.content = <<>>
            /\ r.date = (IF d = <<>> \/ NoDateString(d) THEN Unknown
                         ELSE IsoOrUnknown(d[1].title[1]))
            /\ page.tags = <<>> => r.tags = <<>>
            /\ Len(r.replies) = Len(reply_elems)
            /\ \A k \in 1..Len(reply_elems) :
                  LET e == reply_elems[k]
                  IN  /\ e.username = <<>> => r.replies[k].author = Unknown
                      /\ e.cooked = <<>> => r.replies[k].content = <<>>
                      /\ r.replies[k].date =
                            (IF e.date = <<>> THEN Unknown
                             ELSE IF NoDateString(e.date)
                                  THEN IsoOrUnknown(Strip(e.date[1].text))
                                  ELSE IsoOrUnknown(e.date[1].title[1]))
            /\ LET q == parse_post_html([page EXCEPT !.title = <<>>], url).value
               IN  /\ SameButReplies(r, q, {"id", "url", "author", "date", "content", "tags"})
                   /\ r.replies = q.replies
            /\ LET q == parse_post_html([page EXCEPT !.tags = <<>>], url).value
               IN  /\ SameButReplies(r, q, {"id", "url", "title", "author", "date", "content"})
                   /\ r.replies = q.replies
            /\ \A i \in 1..Len(tp) :
                  /\ LET q == parse_post_html(WithoutPostField(page, i, "username"), url).value
                     IN  /\ SameButReplies(r, q, {"id", "url", "title", "date", "content", "tags"})
                         /\ \A k \in 1..Len(r.replies) :
                               /\ r.replies[k].date = q.replies[k].date
                               /\ r.replies[k].content = q.replies[k].content
                  /\ LET q == parse_post_html(WithoutPostField(page, i, "date"), url).value
                     IN  /\ SameButReplies(r, q, {"id", "url", "title", "author", "content", "tags"})
                         /\ \A k \in 1..Len(r.replies) :
                               /\ r.replies[k].author = q.replies[k].author
                               /\ r.replies[k].content = q.replies[k].content
                  /\ LET q == parse_post_html(WithoutPostField(page, i, "cooked"), url).value
                     IN  /\ SameButReplies(r, q, {"id", "url", "title", "author", "date", "tags"})
                         /\ \A k \in 1..Len(r.replies) :
                               /\ r.replies[k].author = q.replies[k].author
                               /\ r.replies[k].date = q.replies[k].date

\* a page with no title and one reply whose date element has no title
\* attribute: title, author and topic date are defaults, the reply's date is
\* read from its text
C8_Witness ==
    /\ pc = "parsed"
    /\ html[1].title = <<>>
    /\ Len(html[1].topic_posts) = 1
    /\ ~html[1].topic_posts[1].owner
    /\ html[1].topic_posts[1].username = <<>>
    /\ html[1].topic_posts[1].date = <<[title |-> <<>>, text |-> <<" ">> \o DateB \o <<" ">>]>>
    /\ parsed[1].value.title = Unknown
    /\ parsed[1].value.author = Unknown
    /\ parsed[1].value.date = Unknown
    /\ parsed[1].value.content = <<"a">>
    /\ parsed[1].value.replies[1].author = Unknown
    /\ parsed[1].value.replies[1].date = <<"2026-01-03", "T00:00:00">>

====
